---- MODULE Spec2Model ----
(***************************************************************************)
(* Model of package slackbot (bot.go): the receive loop Bot.Run, the reply *)
(* primitives Reply / ReplyPost / ReplyWithAttachments, the typing         *)
(* simulation Bot.Type and the length metric msgLen.                       *)
(*                                                                         *)
(* The router (SimpleRouter, Route, RouteMatch, Match) is called by bot.go *)
(* but defined in another file of the package; it is modelled from the     *)
(* specification (sections 3 and 4.1).                                     *)
(***************************************************************************)
EXTENDS Integers, Sequences, FiniteSets, TLC

(***************************************************************************)
(* Bounds of the model.                                                    *)
(***************************************************************************)
\* capacity of the buffered channel RTM.IncomingEvents
MaxQueue == 1
\* number of routes registered before Run
MaxRoutes == 2

(***************************************************************************)
(* 64-bit signed integers (Go int64, time.Duration) as 8 bytes, least      *)
(* significant first, in two's complement.                                 *)
(***************************************************************************)
RECURSIVE Bytes(_, _)
\* the k low bytes of the natural number n
Bytes(n, k) == IF k = 0 THEN <<>> ELSE <<n % 256>> \o Bytes(n \div 256, k - 1)

\* time.Duration(n) for 0 <= n < 2^31
ToInt64(n) == Bytes(n, 8)

RECURSIVE MulColumn(_, _, _, _)
\* sum of a[i] * b[k + 1 - i] for i in 1..j
MulColumn(a, b, k, j) ==
    IF j = 0 THEN 0 ELSE a[j] * b[k + 1 - j] + MulColumn(a, b, k, j - 1)

RECURSIVE MulFrom(_, _, _, _)
\* bytes k..8 of a * b, given the carry into byte k; the carry out of byte 8
\* is dropped, which is the wrap-around of int64 multiplication
MulFrom(a, b, k, carry) ==
    IF k > 8 THEN <<>>
    ELSE LET t == MulColumn(a, b, k, k) + carry
         IN  <<t % 256>> \o MulFrom(a, b, k + 1, t \div 256)

\* a * b in int64 arithmetic
Mul64(a, b) == MulFrom(a, b, 1, 0)

\* a < 0
IsNeg(a) == a[8] >= 128

RECURSIVE IncFrom(_, _)
\* a + 1 from byte k on, wrapping
IncFrom(a, k) ==
    IF k > 8 THEN a
    ELSE IF a[k] = 255 THEN IncFrom([a EXCEPT ![k] = 0], k + 1)
         ELSE [a EXCEPT ![k] = a[k] + 1]

\* -a in int64 arithmetic
Neg64(a) == IncFrom([i \in 1..8 |-> 255 - a[i]], 1)

RECURSIVE UDivFrom(_, _, _, _)
\* long division of the unsigned value a by d, from byte k down, with the
\* remainder rem carried in from the bytes above
UDivFrom(a, d, k, rem) ==
    IF k = 0 THEN a
    ELSE LET t == rem * 256 + a[k]
         IN  UDivFrom([a EXCEPT ![k] = t \div d], d, k - 1, t % d)

\* a / d for a small d > 0, truncated toward zero as Go's integer division
Div64(a, d) ==
    IF IsNeg(a) THEN Neg64(UDivFrom(Neg64(a), d, 8, 0)) ELSE UDivFrom(a, d, 8, 0)

RECURSIVE ULessFrom(_, _, _)
\* a < b as unsigned values, comparing from byte k down
ULessFrom(a, b, k) ==
    IF k = 0 THEN FALSE
    ELSE IF a[k] # b[k] THEN a[k] < b[k]
         ELSE ULessFrom(a, b, k - 1)

\* a < b as int64 values
Less64(a, b) ==
    IF IsNeg(a) # IsNeg(b) THEN IsNeg(a) ELSE ULessFrom(a, b, 8)

\* a <= b as int64 values
Leq64(a, b) == ~Less64(b, a)

Zero64 == ToInt64(0)

(***************************************************************************)
(* Durations in nanoseconds.                                               *)
(***************************************************************************)
Millisecond == ToInt64(1000000)

Minute == Mul64(ToInt64(60), ToInt64(1000000000))

maxTypingSleepMs == Mul64(Millisecond, ToInt64(2000))

(***************************************************************************)
(* Payloads handed to Type: a string of len bytes, a list of attachments   *)
(* whose %#v rendering has goSyntax bytes, or a value of another type.     *)
(***************************************************************************)
\* a string of the given number of characters, encoded (UTF-8) in bytes bytes
Text(chars, bytes) == [type |-> "string", len |-> bytes, chars |-> chars]

\* a string of n one-byte characters
String(n) == Text(n, n)

Attachments(n) == [type |-> "attachments", goSyntax |-> n]

Unsupported == [type |-> "other"]

msgLen(m) ==
    CASE m.type = "string" -> m.len
      [] m.type = "attachments" -> m.goSyntax
      [] OTHER -> 0

\* the sleepDuration computed by Type for the payload m
sleepDurationOf(m) ==
    LET d == Div64(Mul64(Minute, ToInt64(msgLen(m))), 3000)
    IN  IF Less64(maxTypingSleepMs, d) THEN maxTypingSleepMs ELSE d

(***************************************************************************)
(* Inbound events (msg.Data of an RTMEvent) and the values they carry.     *)
(***************************************************************************)
ConnectedEvent(id, name) == [kind |-> "Connected", id |-> id, name |-> name]

MessageEvent(user, text, channel) ==
    [kind |-> "Message", user |-> user, text |-> text, channel |-> channel]

InvalidAuthEvent == [kind |-> "InvalidAuth"]

ErrorEvent == [kind |-> "Error"]

OtherEvent == [kind |-> "Other"]

\* no event received yet
NoEvent == [kind |-> "None"]

\* no reply call made yet by the running handler
NoCall == [fn |-> "None"]

\* the results of a send to the platform: no error, or an error
SendResults == {"nil", "error"}

(***************************************************************************)
(* Contexts: chains of bindings, the newest last.                          *)
(***************************************************************************)
\* the *Bot
Bot == "bot"

\* context.Background()
Background == <<>>

\* no handler is running, no context is held
NoContext == <<>>

\* a new context: c with one more binding
WithValue(c, key, value) == Append(c, [key |-> key, value |-> value])

AddBotToContext(c, b) == WithValue(c, "bot", b)

AddMessageToContext(c, ev) == WithValue(c, "message", ev)

\* the contexts Match may return for the context c when the route r matched:
\* c itself, or c extended with a binding derived from the pattern of r
MatchContext(c, r) == {c, WithValue(c, "submatches", r.pattern)}

\* the (ID, Name) pairs the platform may announce in Info.User
Identities == {<<"U1", "bot1">>, <<"U2", "bot2">>}

\* the values of MessageEvent.User
Senders == {"", "U1", "bot1", "U2"}

\* message texts, as sequences of tokens
Texts == {<<"hi">>, <<"hi", " there">>}

Channels == {"C1"}

\* route patterns, as sequences of tokens
Patterns == {<<"hi">>, <<"hi", " there">>}

\* the event kinds a route may be restricted to: Hear(...).MessageHandler(...)
\* registers routes for message events, the only kind there is
RouteKinds == {"Message"}

Events ==
    {ConnectedEvent(i[1], i[2]) : i \in Identities}
    \cup {MessageEvent(u, t, c) : u \in Senders, t \in Texts, c \in Channels}
    \cup {InvalidAuthEvent, ErrorEvent, OtherEvent}

\* the texts handlers reply with
ReplyTexts == {String(50)}

\* the attachment lists handlers reply with
ReplyAttachments == {Attachments(9000)}

\* the payloads the typing estimator is applied to
Payloads ==
    {String(n) : n \in {0, 1, 99, 100, 101, 3000, 153722867, 153722868}}
    \cup {Text(5, 6), Attachments(20), Attachments(9000), Unsupported}

(***************************************************************************)
(* State.                                                                  *)
(***************************************************************************)
VARIABLES
    routes,         \* the registered routes, in registration order
    botUserID,      \* Bot.botUserID
    botUserName,    \* Bot.botUserName
    queue,          \* RTM.IncomingEvents, oldest event first
    pc,             \* Run: "setup" (not called), "await", "call", "done"
    msg,            \* the event Run received last
    matchCalls,     \* calls of Match made for msg
    match,          \* RouteMatch of msg: index of the matched route, or 0
    handlerCalls,   \* handler invocations made for msg
    handler,        \* the handler invoked for msg, or 0
    hpc,            \* the handler: "idle", "running", "sleep" (in time.Sleep)
    call,           \* the reply call the running handler made last
    sleepDuration,  \* Type's sleepDuration of that call
    sent,           \* what that call sent to the platform so far
    lastConnected,  \* the Connected event Run processed last (history)
    ctx,            \* Run: the context built for msg
    hctx,           \* the context the running handler of msg was invoked with
    err,            \* the error result of the final send of that call
    inputs,         \* payloads the typing estimator is applied to
    typed           \* the estimator's results for inputs

botVars == <<routes, botUserID, botUserName>>

loopVars ==
    <<queue, pc, msg, matchCalls, match, handlerCalls, handler, lastConnected,
      ctx, hctx>>

handlerVars == <<hpc, call, sleepDuration, sent, err>>

estimatorVars == <<inputs, typed>>

vars == <<botVars, loopVars, handlerVars, estimatorVars>>

(***************************************************************************)
(* New: the Bot as constructed, before routes are added and Run is called. *)
(***************************************************************************)
Init ==
    /\ routes = <<>>
    /\ botUserID = ""
    /\ botUserName = ""
    /\ queue = <<>>
    /\ pc = "setup"
    /\ msg = NoEvent
    /\ matchCalls = 0
    /\ match = 0
    /\ handlerCalls = 0
    /\ handler = 0
    /\ hpc = "idle"
    /\ call = NoCall
    /\ sleepDuration = Zero64
    /\ sent = <<>>
    /\ lastConnected = NoEvent
    /\ ctx = Background
    /\ hctx = NoContext
    /\ err = "none"
    /\ inputs = <<>>
    /\ typed = <<>>

(***************************************************************************)
(* Router (specification sections 3 and 4.1).                              *)
(***************************************************************************)
\* the pattern occurs somewhere in the text (search, not anchored)
PatternMatches(pattern, text) ==
    \E i \in 0..(Len(text) - Len(pattern)) :
        SubSeq(text, i + 1, i + Len(pattern)) = pattern

RouteMatches(route, ev) ==
    /\ route.kind = ev.kind
    /\ PatternMatches(route.pattern, ev.text)

RECURSIVE MatchFrom(_, _, _)
\* the scan of Match from route i on: the index of the first route that
\* matches ev, or 0
MatchFrom(rs, ev, i) ==
    IF i > Len(rs) THEN 0
    ELSE IF RouteMatches(rs[i], ev) THEN i
         ELSE MatchFrom(rs, ev, i + 1)

\* Match: the index of the selected route, 0 when it returns false
Match(rs, ev) == MatchFrom(rs, ev, 1)

\* AddRoute: a route is appended; its handler is a function of its own
AddRoute(pattern, kind) ==
    /\ pc = "setup"
    /\ Len(routes) < MaxRoutes
    /\ routes' = Append(routes, [kind |-> kind, pattern |-> pattern,
                                 handler |-> Len(routes) + 1])
    /\ UNCHANGED <<botUserID, botUserName, loopVars, handlerVars, estimatorVars>>

(***************************************************************************)
(* Run.                                                                    *)
(***************************************************************************)
\* Run is called: the RTM is created and its connection manager started
Run ==
    /\ pc = "setup"
    /\ pc' = "await"
    /\ UNCHANGED <<botVars, queue, msg, matchCalls, match, handlerCalls, handler,
                   lastConnected, ctx, hctx, handlerVars, estimatorVars>>

\* the connection manager puts an event on IncomingEvents
Deliver(ev) ==
    /\ pc # "setup"
    /\ Len(queue) < MaxQueue
    /\ queue' = Append(queue, ev)
    /\ UNCHANGED <<botVars, pc, msg, matchCalls, match, handlerCalls, handler,
                   lastConnected, ctx, hctx, handlerVars, estimatorVars>>

\* the loop receives the oldest event of the channel
Receive ==
    /\ pc = "await"
    /\ queue # <<>>
    /\ msg' = Head(queue)
    /\ queue' = Tail(queue)

BotUserID == botUserID

BotUserName == botUserName

\* setBotID that keeps the ID once one is set
setBotIDOnce(ID) == botUserID' = IF botUserID = "" THEN ID ELSE botUserID

setBotID(ID) == botUserID' = ID

\* setBotName on a copy of the Bot: the name is not stored
setBotNameOnCopy(name) == botUserName' = botUserName

setBotName(name) == botUserName' = name

\* the context of the iteration before, extended: ctx declared outside the loop
CarriedContext == AddBotToContext(ctx, Bot)

\* the context every iteration of the loop starts with
NewContext == AddBotToContext(Background, Bot)

\* the event is not routed: neither Match nor a handler is called for it
NotRouted ==
    /\ matchCalls' = 0 /\ match' = 0 /\ handlerCalls' = 0 /\ handler' = 0
    /\ ctx' = NewContext
    /\ hctx' = NoContext

\* case *slack.ConnectedEvent
OnConnected ==
    /\ Receive
    /\ msg'.kind = "Connected"
    /\ setBotID(msg'.id)
    /\ setBotName(msg'.name)
    /\ lastConnected' = msg'
    /\ NotRouted
    /\ UNCHANGED <<routes, pc, handlerVars, estimatorVars>>

\* the test with the comparison of the user name left out
SuppressedByIDOnly(ev) == botUserID = ev.user

\* the test left out altogether
SuppressedNever(ev) == FALSE

\* the test, made for a message with a sender only
SuppressedWithSender(ev) ==
    ev.user # "" /\ (botUserID = ev.user \/ botUserName = ev.user)

\* the test that makes the loop ignore a message of the bot user itself
Suppressed(ev) == botUserID = ev.user \/ botUserName = ev.user

\* the handler of the route registered last, whatever the RouteMatch
MatchHandlerOfLastRoute(m) == routes[Len(routes)].handler

\* match.Handler: the handler the loop invokes for the RouteMatch m
MatchHandler(m) == routes[m].handler

\* go match.Handler(ctx): the handler is started and the loop goes on
InvokeAsync(h) ==
    /\ handlerCalls' = 1
    /\ handler' = h
    /\ pc' = pc
    /\ hpc' = "running"

\* match.Handler(ctx): the loop calls the handler h and waits for its return
Invoke(h) ==
    /\ handlerCalls' = 1
    /\ handler' = h
    /\ pc' = "call"
    /\ hpc' = "running"

\* case *slack.MessageEvent
OnMessage ==
    /\ Receive
    /\ msg'.kind = "Message"
    /\ IF Suppressed(msg')
       THEN /\ NotRouted
            /\ UNCHANGED <<pc, hpc>>
       ELSE /\ ctx' = AddMessageToContext(NewContext, msg')
            /\ matchCalls' = 1
            /\ match' = Match(routes, msg')
            /\ IF match' # 0
               THEN /\ Invoke(MatchHandler(match'))
                    /\ hctx' \in MatchContext(ctx', routes[match'])
               ELSE /\ handlerCalls' = 0 /\ handler' = 0
                    /\ hctx' = NoContext
                    /\ UNCHANGED <<pc, hpc>>
    /\ UNCHANGED <<botVars, lastConnected, call, sleepDuration, sent, err,
                   estimatorVars>>

\* case *slack.InvalidAuthEvent, with continue LOOP in place of break LOOP
OnInvalidAuthContinue ==
    /\ Receive
    /\ msg'.kind = "InvalidAuth"
    /\ NotRouted
    /\ UNCHANGED <<botVars, pc, lastConnected, handlerVars, estimatorVars>>

\* case *slack.InvalidAuthEvent
OnInvalidAuth ==
    /\ Receive
    /\ msg'.kind = "InvalidAuth"
    /\ pc' = "done"
    /\ NotRouted
    /\ UNCHANGED <<botVars, lastConnected, handlerVars, estimatorVars>>

\* case error, with break LOOP: the error ends the loop
OnErrorBreak ==
    /\ Receive
    /\ msg'.kind = "Error"
    /\ pc' = "done"
    /\ NotRouted
    /\ UNCHANGED <<botVars, lastConnected, handlerVars, estimatorVars>>

\* case error, forgetting who the bot is
OnErrorForgetsIdentity ==
    /\ Receive
    /\ msg'.kind = "Error"
    /\ setBotID("")
    /\ setBotName("")
    /\ NotRouted
    /\ UNCHANGED <<routes, pc, lastConnected, handlerVars, estimatorVars>>

\* case error
OnError ==
    /\ Receive
    /\ msg'.kind = "Error"
    /\ NotRouted
    /\ UNCHANGED <<botVars, pc, lastConnected, handlerVars, estimatorVars>>

\* default
OnOther ==
    /\ Receive
    /\ msg'.kind = "Other"
    /\ NotRouted
    /\ UNCHANGED <<botVars, pc, lastConnected, handlerVars, estimatorVars>>

(***************************************************************************)
(* The reply primitives, called by the running handler with the event it   *)
(* was invoked for.                                                        *)
(***************************************************************************)
TypingMessage(channel) == [op |-> "typing", channel |-> channel]

OutgoingMessage(channel) == [op |-> "message", channel |-> channel]

PostMessage(channel) == [op |-> "post", channel |-> channel]

\* the string "attachment", of 10 bytes
AttachmentToken == String(10)

\* sleepDurationOf on the payloads the reply calls hand to Type
typingSleep ==
    [m \in ReplyTexts \cup {AttachmentToken} |-> sleepDurationOf(m)]

\* Type with the sleep first: nothing is sent before the caller sleeps
TypeSleepFirst(evt, m) ==
    /\ sleepDuration' = typingSleep[m]
    /\ sent' = <<>>
    /\ err' = "none"
    /\ hpc' = "sleep"

\* Type: the typing message is sent, then the caller sleeps
Type(evt, m) ==
    /\ sleepDuration' = typingSleep[m]
    /\ sent' = <<TypingMessage(evt.channel)>>
    /\ err' = "none"
    /\ hpc' = "sleep"

\* the send of the reply call c, addressed to the sender instead of the channel
FinalSendToUser(evt, c) ==
    IF c.fn = "Reply" THEN OutgoingMessage(evt.user) ELSE PostMessage(evt.user)

\* the send that ends the reply call c for the event evt
FinalSend(evt, c) ==
    IF c.fn = "Reply" THEN OutgoingMessage(evt.channel) ELSE PostMessage(evt.channel)

\* the final send with its error, if any, ending the handler
SendOrPanic(before, c, e) ==
    /\ sent' = Append(before, FinalSend(msg, c))
    /\ err' = e
    /\ hpc' = IF e = "error" THEN "panic" ELSE "running"

\* the final send of the reply call c, after the sends before, with the
\* result e, which is dropped: the call returns to the handler
Send(before, c, e) ==
    /\ sent' = Append(before, FinalSend(msg, c))
    /\ err' = e
    /\ hpc' = "running"

\* a reply call, up to its return or to the sleep inside Type
ReplyCall(c, typedAs) ==
    /\ hpc = "running"
    /\ call' = c
    /\ IF c.typing
       THEN Type(msg, typedAs)
       ELSE /\ \E e \in SendResults : Send(<<>>, c, e)
            /\ sleepDuration' = Zero64
    /\ UNCHANGED <<botVars, loopVars, estimatorVars>>

Reply(m, typing) ==
    ReplyCall([fn |-> "Reply", msg |-> m, typing |-> typing], m)

ReplyPost(m, typing) ==
    ReplyCall([fn |-> "ReplyPost", msg |-> m, typing |-> typing], m)

\* Type is handed the string "attachment", not the attachments
ReplyWithAttachments(attachments, typing) ==
    ReplyCall([fn |-> "ReplyWithAttachments", msg |-> attachments, typing |-> typing],
              AttachmentToken)

\* time.Sleep returns: Type returns, the reply call sends and returns
SleepReturn ==
    /\ hpc = "sleep"
    /\ \E e \in SendResults : Send(sent, call, e)
    /\ UNCHANGED <<botVars, loopVars, call, sleepDuration, estimatorVars>>

\* the handler returns, but the loop does not go on to the next event
HandlerReturnLoopStuck ==
    /\ hpc = "running"
    /\ hpc' = "idle"
    /\ pc' = "call"
    /\ call' = NoCall
    /\ sleepDuration' = Zero64
    /\ sent' = <<>>
    /\ err' = "none"
    /\ hctx' = NoContext
    /\ UNCHANGED <<botVars, queue, msg, matchCalls, match, handlerCalls, handler,
                   lastConnected, ctx, estimatorVars>>

\* the handler returns to the loop
HandlerReturn ==
    /\ hpc = "running"
    /\ hpc' = "idle"
    /\ pc' = "await"
    /\ call' = NoCall
    /\ sleepDuration' = Zero64
    /\ sent' = <<>>
    /\ err' = "none"
    /\ hctx' = NoContext
    /\ UNCHANGED <<botVars, queue, msg, matchCalls, match, handlerCalls, handler,
                   lastConnected, ctx, estimatorVars>>

Next ==
    \/ \E p \in Patterns, k \in RouteKinds : AddRoute(p, k)
    \/ Run
    \/ \E ev \in Events : Deliver(ev)
    \/ OnConnected
    \/ OnMessage
    \/ OnInvalidAuth
    \/ OnError
    \/ OnOther
    \/ \E m \in ReplyTexts, t \in BOOLEAN : Reply(m, t)
    \/ \E m \in ReplyTexts, t \in BOOLEAN : ReplyPost(m, t)
    \/ \E a \in ReplyAttachments, t \in BOOLEAN : ReplyWithAttachments(a, t)
    \/ SleepReturn
    \/ HandlerReturn

Spec == Init /\ [][Next]_vars

(***************************************************************************)
(* The typing estimator on its own: Type's computation of sleepDuration    *)
(* applied to each of a pair of payloads.                                  *)
(***************************************************************************)
EstimatorInit ==
    /\ routes = <<>>
    /\ botUserID = ""
    /\ botUserName = ""
    /\ queue = <<>>
    /\ pc = "setup"
    /\ msg = NoEvent
    /\ matchCalls = 0
    /\ match = 0
    /\ handlerCalls = 0
    /\ handler = 0
    /\ hpc = "idle"
    /\ call = NoCall
    /\ sleepDuration = Zero64
    /\ sent = <<>>
    /\ lastConnected = NoEvent
    /\ ctx = Background
    /\ hctx = NoContext
    /\ err = "none"
    /\ inputs \in Payloads \X Payloads
    /\ typed = <<>>

Estimate ==
    /\ Len(typed) < Len(inputs)
    /\ typed' = Append(typed, sleepDurationOf(inputs[Len(typed) + 1]))
    /\ UNCHANGED <<botVars, loopVars, handlerVars, inputs>>

EstimatorNext == Estimate

EstimatorSpec == EstimatorInit /\ [][EstimatorNext]_vars

(***************************************************************************)
(* The running loop under fair scheduling: Run has been called on a Bot    *)
(* with the route Hear("hi there"); the loop takes its next step when it   *)
(* can, time.Sleep returns, and the handler returns.                       *)
(***************************************************************************)
LiveInit ==
    /\ routes = <<[kind |-> "Message", pattern |-> <<"hi", " there">>,
                   handler |-> 1]>>
    /\ botUserID = ""
    /\ botUserName = ""
    /\ queue = <<>>
    /\ pc = "await"
    /\ msg = NoEvent
    /\ matchCalls = 0
    /\ match = 0
    /\ handlerCalls = 0
    /\ handler = 0
    /\ hpc = "idle"
    /\ call = NoCall
    /\ sleepDuration = Zero64
    /\ sent = <<>>
    /\ lastConnected = NoEvent
    /\ ctx = Background
    /\ hctx = NoContext
    /\ err = "none"
    /\ inputs = <<>>
    /\ typed = <<>>

\* one iteration of the loop of Run: the select and the switch on msg.Data
LoopStep ==
    \/ OnConnected
    \/ OnMessage
    \/ OnInvalidAuth
    \/ OnError
    \/ OnOther

LiveNext ==
    \/ \E ev \in Events : Deliver(ev)
    \/ LoopStep
    \/ \E m \in ReplyTexts, t \in BOOLEAN : Reply(m, t)
    \/ \E m \in ReplyTexts, t \in BOOLEAN : ReplyPost(m, t)
    \/ \E a \in ReplyAttachments, t \in BOOLEAN : ReplyWithAttachments(a, t)
    \/ SleepReturn
    \/ HandlerReturn

LiveSpec ==
    /\ LiveInit
    /\ [][LiveNext]_vars
    /\ WF_vars(LoopStep)
    /\ WF_vars(SleepReturn)
    /\ SF_vars(HandlerReturn)

(***************************************************************************)
(* The running loop after its first Connected event: Run has been called   *)
(* on a Bot with the route Hear("hi"), and the loop has processed the       *)
(* Connected event of the user (U1, bot1).                                 *)
(***************************************************************************)
ReconnectInit ==
    /\ routes = <<[kind |-> "Message", pattern |-> <<"hi">>, handler |-> 1]>>
    /\ botUserID = "U1"
    /\ botUserName = "bot1"
    /\ queue = <<>>
    /\ pc = "await"
    /\ msg = ConnectedEvent("U1", "bot1")
    /\ matchCalls = 0
    /\ match = 0
    /\ handlerCalls = 0
    /\ handler = 0
    /\ hpc = "idle"
    /\ call = NoCall
    /\ sleepDuration = Zero64
    /\ sent = <<>>
    /\ lastConnected = ConnectedEvent("U1", "bot1")
    /\ ctx = NewContext
    /\ hctx = NoContext
    /\ err = "none"
    /\ inputs = <<>>
    /\ typed = <<>>

ReconnectSpec == ReconnectInit /\ [][LiveNext]_vars

(***************************************************************************)
(* Properties.                                                             *)
(***************************************************************************)
\* ev is the first event of the channel and the step receives it
Receives(ev) == queue # <<>> /\ Head(queue) = ev /\ Len(queue') < Len(queue)

\* the sender of the message event ev is the bot user, by ID or by name
FromBot(ev) == ev.user = BotUserID \/ ev.user = BotUserName

\* route i is the first registered route whose kind and pattern match ev
FirstMatching(i, ev) ==
    /\ RouteMatches(routes[i], ev)
    /\ \A j \in 1..(i - 1) : ~RouteMatches(routes[j], ev)

\* C1: for a Message event whose sender equals the stored userID or the
\* stored userName, neither Match nor a handler is invoked, whatever its text
\* and the routes, and the loop goes on to wait for the next event.
C1_SuppressedNotRouted ==
    (msg.kind = "Message" /\ FromBot(msg))
        => /\ matchCalls = 0
           /\ handlerCalls = 0
           /\ handler = 0
           /\ hpc = "idle"
           /\ pc = "await"

\* C1, its case: after a Connected event, a message of the bot's own name
\* that a registered route matches has been received and was not routed.
C1_Witness ==
    /\ lastConnected # NoEvent
    /\ msg.kind = "Message"
    /\ msg.user = BotUserName
    /\ \E i \in 1..Len(routes) : RouteMatches(routes[i], msg)
    /\ matchCalls = 0
    /\ pc = "await"

\* C2: for a Message event that is not suppressed, the handler invoked is
\* the handler of the first route, in registration order, whose kind and
\* pattern match it; the handler of a later matching route is not invoked.
C2_FirstMatchWins ==
    (msg.kind = "Message" /\ ~FromBot(msg))
        => \A i \in 1..Len(routes) :
               FirstMatching(i, msg)
                   => /\ handlerCalls = 1
                      /\ match = i
                      /\ handler = routes[i].handler

\* C2, its case: "hi" registered before "hi there", the text "hi there"
\* matches both, and the handler of the first was invoked.
C2_Witness ==
    /\ Len(routes) = 2
    /\ routes[1].pattern = <<"hi">>
    /\ routes[2].pattern = <<"hi", " there">>
    /\ msg.kind = "Message"
    /\ msg.text = <<"hi", " there">>
    /\ handlerCalls = 1
    /\ handler = routes[1].handler
    /\ handler # routes[2].handler

\* C3: once an InvalidAuth event is received the loop has exited, and from
\* then on no event is received or classified, the identity does not change
\* and no handler is invoked, whatever is or gets buffered in the channel.
C3_InvalidAuthIsFinal ==
    /\ [](msg.kind = "InvalidAuth" => pc = "done")
    /\ [][pc = "done"
            => /\ pc' = "done"
               /\ msg' = msg
               /\ Len(queue') >= Len(queue)
               /\ BotUserID' = BotUserID
               /\ BotUserName' = BotUserName
               /\ matchCalls' = matchCalls
               /\ handlerCalls' = handlerCalls
               /\ hpc' = hpc]_vars

\* C3, its case: the loop has exited mid-stream, after a Connected event,
\* with an event left in the channel.
C3_Witness ==
    /\ pc = "done"
    /\ msg = InvalidAuthEvent
    /\ lastConnected # NoEvent
    /\ queue # <<>>

\* C4: the loop is in its terminated state only as the result of receiving
\* an InvalidAuth event: no Connected, Message, error or other event, and no
\* handler, takes it there.
C4_OnlyInvalidAuthTerminates ==
    /\ [](pc = "done" => msg.kind = "InvalidAuth")
    /\ [][(pc # "done" /\ pc' = "done") => Receives(InvalidAuthEvent)]_vars

\* C4, its case: a handler has run and returned and the loop waits for the
\* next event.
C4_Witness ==
    /\ pc = "await"
    /\ msg.kind = "Message"
    /\ handlerCalls = 1
    /\ hpc = "idle"
    /\ lastConnected # NoEvent

\* C5: receiving a transport error leaves the loop waiting for the next
\* event, with the identity, the routes and the rest of the channel as they
\* were, and invokes no handler.
C5_ErrorIsNotFatal ==
    [][Receives(ErrorEvent)
         => /\ pc' = "await"
            /\ BotUserID' = BotUserID
            /\ BotUserName' = BotUserName
            /\ routes' = routes
            /\ queue' = Tail(queue)
            /\ matchCalls' = 0
            /\ handlerCalls' = 0
            /\ hpc' = "idle"]_vars

\* C5, its case: an error was received while the bot has an identity and
\* routes, and the next event is in the channel.
C5_Witness ==
    /\ msg = ErrorEvent
    /\ pc = "await"
    /\ BotUserID = "U1"
    /\ routes # <<>>
    /\ queue # <<>>

\* C6: a handler is invoked only for a Message event that is not suppressed
\* and for which Match returned true, and then once; a message that no route
\* matches and every event of another kind invoke none.
C6_HandlerOnlyOnMatch ==
    /\ handlerCalls \in {0, 1}
    /\ handlerCalls = 1
         <=> /\ msg.kind = "Message"
             /\ ~FromBot(msg)
             /\ matchCalls = 1
             /\ match # 0
    /\ match # 0 => FirstMatching(match, msg)
    /\ hpc # "idle" => handlerCalls = 1

\* C6, its case: a message that is not suppressed was handed to Match, no
\* route matched it, and no handler was invoked.
C6_Witness ==
    /\ msg.kind = "Message"
    /\ ~FromBot(msg)
    /\ routes # <<>>
    /\ matchCalls = 1
    /\ match = 0
    /\ handlerCalls = 0

C8_IdentityIsLastConnected ==
    /\ lastConnected = NoEvent => BotUserID = "" /\ BotUserName = ""
    /\ lastConnected # NoEvent
         => BotUserID = lastConnected.id /\ BotUserName = lastConnected.name

\* C8, its case: after a Connected event a handler has made a reply call.
C8_Witness ==
    /\ lastConnected = ConnectedEvent("U2", "bot2")
    /\ msg.kind = "Message"
    /\ hpc = "running"
    /\ call # NoCall
    /\ BotUserName = "bot2"

\* C9: for every payload the sleepDuration computed by Type is at least 0
\* and at most 2000ms.
C9_DelayInRange ==
    \A i \in 1..Len(typed) :
        Leq64(Zero64, typed[i]) /\ Leq64(typed[i], maxTypingSleepMs)

\* C10: the sleepDuration is monotonically non-decreasing in the length of
\* a text payload, and 0 for the empty string.
C10_DelayMonotonic ==
    /\ \A i \in 1..Len(typed) : inputs[i] = String(0) => typed[i] = Zero64
    /\ \A i, j \in 1..Len(typed) :
           (/\ inputs[i].type = "string"
            /\ inputs[j].type = "string"
            /\ inputs[i].len <= inputs[j].len)
               => Leq64(typed[i], typed[j])

\* the length the typing delay is said to be computed from: the character
\* count of a text, the length of the rendering of an attachment list, else 0
StatedLength(m) ==
    CASE m.type = "string" -> m.chars
      [] m.type = "attachments" -> m.goSyntax
      [] OTHER -> 0

\* min(60 seconds * n / 3000, 2000ms) over the integers: 60 seconds * n / 3000
\* is n times 20ms, which reaches 2000ms at n = 100
StatedDelay(n) ==
    IF n >= 100 THEN maxTypingSleepMs ELSE ToInt64(20000000 * n)

\* C11: the typing delay is min(60 seconds * length / 3000, 2000ms), the
\* length being the character count of a text, the length of the debug
\* rendering of an attachment list and 0 for any other payload.
C11_DelayFormula ==
    \A i \in 1..Len(typed) : typed[i] = StatedDelay(StatedLength(inputs[i]))

(***************************************************************************)
(* C12: the context the handler of a Message event is invoked with binds   *)
(* the bot handle and that very event, and no other event: it is built     *)
(* from context.Background() in the iteration that received the event, so  *)
(* the events received before or delivered after it are not bound in it.   *)
(***************************************************************************)
\* the newest binding of key in the context c has the value v
Binds(c, key, v) ==
    \E i \in 1..Len(c) :
        /\ c[i].key = key
        /\ c[i].value = v
        /\ \A j \in (i + 1)..Len(c) : c[j].key # key

\* every binding of key in the context c has the value v
BindsOnly(c, key, v) ==
    \A i \in 1..Len(c) : c[i].key = key => c[i].value = v

C12_FreshContext ==
    hpc # "idle" =>
        /\ msg.kind = "Message"
        /\ Binds(hctx, "bot", Bot)
        /\ Binds(hctx, "message", msg)
        /\ BindsOnly(hctx, "message", msg)

\* a handler runs for a message while a message of another text waits
C12_Witness ==
    /\ hpc = "running"
    /\ Binds(hctx, "message", msg)
    /\ Len(queue) > 0
    /\ queue[1].kind = "Message"
    /\ queue[1].text # msg.text

(***************************************************************************)
(* C13: a send that fails inside Reply, ReplyPost or ReplyWithAttachments  *)
(* is not propagated: the call has returned to the handler, which runs on  *)
(* and can return; the loop has not ended but waits for the handler; the   *)
(* identity is still that of the Connected event received last.            *)
(***************************************************************************)
C13_SendFailureNotPropagated ==
    err = "error" =>
        /\ hpc = "running"
        /\ ENABLED HandlerReturn
        /\ pc = "call"
        /\ lastConnected = NoEvent => BotUserID = "" /\ BotUserName = ""
        /\ lastConnected # NoEvent
             => BotUserID = lastConnected.id /\ BotUserName = lastConnected.name

\* the send of a reply failed after a Connected event, an event waits for
\* the loop
C13_Witness ==
    /\ err = "error"
    /\ call # NoCall
    /\ lastConnected # NoEvent
    /\ BotUserID = lastConnected.id
    /\ queue # <<>>

(***************************************************************************)
(* C14: in ReplyWithAttachments with typing the sleepDuration is the one   *)
(* computed from the length of the rendering of the attachments passed to  *)
(* the call (2000ms for a rendering of 9000 bytes).                        *)
(***************************************************************************)
C14_AttachmentDelay ==
    (call.fn = "ReplyWithAttachments" /\ call.typing)
        => sleepDuration = sleepDurationOf(call.msg)

(***************************************************************************)
(* C15, as stated: in a reply with typing the typing indicator is sent     *)
(* only after the delay has elapsed, so nothing of it is sent while the    *)
(* caller is still in time.Sleep.                                          *)
(***************************************************************************)
C15_IndicatorAfterDelay ==
    hpc = "sleep" => \A i \in 1..Len(sent) : sent[i].op # "typing"

\* C15, amended: in a reply with typing the typing indicator is sent before
\* the delay starts, and the final payload is sent only after the delay has
\* elapsed: during the sleep the indicator is all that was sent, after it
\* the indicator is followed by the final payload.
C15_IndicatorBeforeDelay ==
    /\ hpc = "sleep" =>
          /\ call.typing
          /\ sent = <<TypingMessage(msg.channel)>>
    /\ (hpc = "running" /\ call # NoCall /\ call.typing) =>
          /\ Len(sent) = 2
          /\ sent[1].op = "typing"
          /\ sent[2].op # "typing"

\* the caller of Type sleeps, the indicator is out, the payload is not
C15_Witness ==
    /\ hpc = "sleep"
    /\ call.fn = "Reply"
    /\ sent = <<TypingMessage("C1")>>
    /\ Less64(Zero64, sleepDuration)

(***************************************************************************)
(* C16: a reply call that has returned made exactly one final send, to the *)
(* channel of the event, as the last of its sends; with typing exactly one *)
(* typing indicator to that channel came before it, and the final send was *)
(* not made while the delay ran; without typing there was no indicator and *)
(* no delay.                                                               *)
(***************************************************************************)
\* the positions of the final sends in s
Finals(s) == {i \in 1..Len(s) : s[i].op # "typing"}

\* the positions of the typing indicators in s
Typings(s) == {i \in 1..Len(s) : s[i].op = "typing"}

C16_OneFinalSend ==
    /\ (hpc = "running" /\ call # NoCall) =>
          /\ Cardinality(Finals(sent)) = 1
          /\ Finals(sent) = {Len(sent)}
          /\ \A i \in 1..Len(sent) : sent[i].channel = msg.channel
          /\ Cardinality(Typings(sent)) = IF call.typing THEN 1 ELSE 0
          /\ ~call.typing => sleepDuration = Zero64
    /\ hpc = "sleep" => call.typing /\ Finals(sent) = {}

\* ReplyPost with typing has returned: the indicator, then the post
C16_Witness ==
    /\ hpc = "running"
    /\ call.fn = "ReplyPost"
    /\ call.typing
    /\ sent = <<TypingMessage("C1"), PostMessage("C1")>>

(***************************************************************************)
(* C17: when the loop is scheduled fairly and every handler returns, each  *)
(* event waiting on the channel while the loop has not ended on an         *)
(* InvalidAuth event is eventually received (again and again the channel   *)
(* is empty or the loop takes the oldest event off it), and a message the  *)
(* loop is about to receive that is not the bot's own and that a route     *)
(* matches eventually has its handler running.                             *)
(***************************************************************************)
\* the loop is about to receive a message it will route to a handler
HeadIsRoutable ==
    /\ pc = "await"
    /\ queue # <<>>
    /\ Head(queue).kind = "Message"
    /\ ~Suppressed(Head(queue))
    /\ Match(routes, Head(queue)) # 0

\* the handler of the matched route runs for the message received last
HandlerInvoked ==
    /\ hpc = "running"
    /\ msg.kind = "Message"
    /\ handlerCalls = 1
    /\ handler = MatchHandler(Match(routes, msg))

C17_EventuallyProcessed ==
    /\ []<>(queue = <<>> \/ pc = "done") \/ []<><<LoopStep>>_vars
    /\ HeadIsRoutable ~> HandlerInvoked

\* a routable message waits behind another event while a handler sleeps
C17_Witness ==
    /\ hpc = "sleep"
    /\ queue # <<>>
    /\ queue[Len(queue)].kind = "Message"
    /\ queue[Len(queue)].user = "U2"
    /\ Match(routes, queue[Len(queue)]) # 0

(***************************************************************************)
(* C18: the loop first processed Connected for (U1, bot1).  A message is   *)
(* suppressed (Match is not called for it) exactly when its sender is the  *)
(* ID or the name of the Connected event processed last before it: once a  *)
(* Connected event for (U2, bot2) is processed, a message of U1 or bot1 is *)
(* passed to Match and a message of U2 or bot2 is not.                     *)
(***************************************************************************)
C18_CurrentIdentity ==
    msg.kind = "Message" =>
        /\ matchCalls = 0 <=> msg.user \in {lastConnected.id, lastConnected.name}
        /\ lastConnected = ConnectedEvent("U2", "bot2") =>
              /\ msg.user \in {"U1", "bot1"} => matchCalls = 1
              /\ msg.user \in {"U2", "bot2"} => matchCalls = 0 /\ handlerCalls = 0

\* after the change to (U2, bot2) a message of U1 is routed to its handler
C18_Witness ==
    /\ lastConnected = ConnectedEvent("U2", "bot2")
    /\ BotUserID = "U2"
    /\ msg.kind = "Message"
    /\ msg.user = "U1"
    /\ matchCalls = 1
    /\ hpc = "running"

(***************************************************************************)
(* C19: until the loop has processed a Connected event the identity is the *)
(* pair of empty strings New left in the Bot, and a message is suppressed  *)
(* (Match is not called for it) exactly when its sender is the empty       *)
(* string.                                                                 *)
(***************************************************************************)
C19_EmptyIdentity ==
    lastConnected = NoEvent =>
        /\ BotUserID = ""
        /\ BotUserName = ""
        /\ msg.kind = "Message" => (matchCalls = 0 <=> msg.user = "")

\* before any Connected event a message without sender, which a route
\* matches, was received and not passed to Match
C19_Witness ==
    /\ lastConnected = NoEvent
    /\ msg.kind = "Message"
    /\ msg.user = ""
    /\ Match(routes, msg) # 0
    /\ matchCalls = 0
    /\ handlerCalls = 0

====
